---- MODULE Spec2Model ----
(***************************************************************************)
(* Fireside POS: order store, pricing, checkout creation and payment       *)
(* reconciliation (src/app_streamlit.py, src/webhook.py).                  *)
(*                                                                         *)
(* Money is kept in minor units (cents); the source keeps float dollars.   *)
(* Tax rates are kept per mille (85 stands for 0.085).                     *)
(* SQL NULL / Python None is the string "None".                            *)
(***************************************************************************)
EXTENDS Integers, Sequences, FiniteSets, TLC

VARIABLES
    menu,           \* the document menu.json holds, as load_menu returns it
    customers,      \* table customers, row id = index
    orders,         \* table orders, row id = index (AUTOINCREMENT)
    order_items,    \* table order_items, row id = index
    cart,           \* st.session_state.cart of the front-desk session
    last_order_id,  \* st.session_state["last_order_id"], 0 when absent
    kds,            \* kitchen run between its SELECT and its UPDATE
    last,           \* the last request handled and what it answered
    audit           \* per order: what the reconciliation and the status /
                    \* archive writers have written so far

store == <<customers, orders, order_items>>
vars == <<menu, customers, orders, order_items, cart, last_order_id, kds, last, audit>>

None == "None"

\* ------------------------------------------------------------------ bounds
MaxOrders == 2
MaxCart == 1
MaxQty == 3

\* ------------------------------------------------------------- constants
STATUS_CHOICES == <<"new", "in_progress", "ready", "completed">>
SERVICE_TYPES == {"Dine-In", "Takeout", "Delivery"}
PAYMENT_METHODS == {"Cash", "Card", "Online", "Other"}
DEFAULT_TAX_RATE == 85
DEFAULT_DELIVERY_FEE == 300

\* ---------------------------------------------------------------- helpers
RECURSIVE SumDeltas(_)
SumDeltas(ms) ==
    IF ms = <<>> THEN 0 ELSE Head(ms).price_delta + SumDeltas(Tail(ms))

\* (mutant) the subtotal stops at the first line of the cart
SumLineTotalsFirst(ls) ==
    IF ls = <<>> THEN 0 ELSE Head(ls).line_total

RECURSIVE SumLineTotals(_)
SumLineTotals(ls) ==
    IF ls = <<>> THEN 0 ELSE Head(ls).line_total + SumLineTotals(Tail(ls))

Max(a, b) == IF a >= b THEN a ELSE b

\* round(x, 2) of the float x that stands for n / d minor units, as the set
\* of what it can return: the nearest integer; when n / d lies exactly
\* half-way, the double that holds x lies on either side of the tie (or on
\* it), so either neighbour
Roundings(n, d) ==
    LET q == n \div d
        r == n % d
    IN  IF 2 * r < d THEN {q}
        ELSE IF 2 * r > d THEN {q + 1}
        ELSE {q, q + 1}

\* ------------------------------------------------------------------- menu
\* the catalog ensure_menu_file seeds (size names shortened, display-only
\* fields left out)
DefaultMenu ==
    [categories |-> <<
        [name |-> "Pizzas", items |-> <<
            [id |-> "pz_margherita", name |-> "Margherita", base_price |-> 1200,
             sizes |-> << [name |-> "Small", price_delta |-> 0],
                          [name |-> "Medium", price_delta |-> 300],
                          [name |-> "Large", price_delta |-> 700] >>,
             available_toppings |-> <<
                          [name |-> "Pepperoni", price_delta |-> 150],
                          [name |-> "Mushrooms", price_delta |-> 100],
                          [name |-> "Onions", price_delta |-> 75],
                          [name |-> "Olives", price_delta |-> 75],
                          [name |-> "Extra Cheese", price_delta |-> 150] >>],
            [id |-> "pz_pepperoni", name |-> "Pepperoni", base_price |-> 1300,
             sizes |-> << [name |-> "Small", price_delta |-> 0],
                          [name |-> "Medium", price_delta |-> 300],
                          [name |-> "Large", price_delta |-> 700] >>,
             available_toppings |-> <<
                          [name |-> "Mushrooms", price_delta |-> 100],
                          [name |-> "Onions", price_delta |-> 75],
                          [name |-> "Olives", price_delta |-> 75],
                          [name |-> "Jalapenos", price_delta |-> 100],
                          [name |-> "Extra Cheese", price_delta |-> 150] >>] >>],
        [name |-> "Sides", items |-> <<
            [id |-> "sd_garlic_knots", name |-> "Garlic Knots", base_price |-> 500,
             sizes |-> << >>,
             available_toppings |-> <<
                          [name |-> "Marinara", price_delta |-> 75] >>] >>],
        [name |-> "Drinks", items |-> <<
            [id |-> "dr_soda", name |-> "Soda", base_price |-> 250,
             sizes |-> << [name |-> "Reg", price_delta |-> 0],
                          [name |-> "Lg", price_delta |-> 75] >>,
             available_toppings |-> << >>] >>] >>]

\* all items of the catalog, categories first, in file order
RECURSIVE FlatItems(_)
FlatItems(cats) ==
    IF cats = <<>> THEN <<>> ELSE Head(cats).items \o FlatItems(Tail(cats))

\* what find_item returns when no item has the id (Python None)
NoItem == [id |-> None]

RECURSIVE FirstWithId(_, _)
FirstWithId(items, item_id) ==
    IF items = <<>> THEN NoItem
    ELSE IF Head(items).id = item_id THEN Head(items)
    ELSE FirstWithId(Tail(items), item_id)

\* menu.get("categories", [])
Categories(m) == IF "categories" \in DOMAIN m THEN m.categories ELSE <<>>

find_item(m, item_id) == FirstWithId(FlatItems(Categories(m)), item_id)

RECURSIVE SizeDelta(_, _)
SizeDelta(sizes, size_name) ==
    IF sizes = <<>> THEN 0
    ELSE IF Head(sizes).name = size_name THEN Head(sizes).price_delta
    ELSE SizeDelta(Tail(sizes), size_name)

\* (mutant) the modifiers are charged once a line, not once a unit
calc_line_total_mods_once(m, item_id, qty, size_name, modifiers) ==
    LET it == find_item(m, item_id)
    IN  IF it.id = None THEN 0
        ELSE LET size_delta == IF size_name # None THEN SizeDelta(it.sizes, size_name) ELSE 0
             IN  (it.base_price + size_delta) * Max(1, qty) + SumDeltas(modifiers)

\* (mutant) the quantity is used as it comes
calc_line_total_unclamped(m, item_id, qty, size_name, modifiers) ==
    LET it == find_item(m, item_id)
    IN  IF it.id = None THEN 0
        ELSE LET size_delta == IF size_name # None THEN SizeDelta(it.sizes, size_name) ELSE 0
             IN  (it.base_price + size_delta + SumDeltas(modifiers)) * qty

calc_line_total(m, item_id, qty, size_name, modifiers) ==
    LET it == find_item(m, item_id)
    IN  IF it.id = None THEN 0
        ELSE LET size_delta == IF size_name # None THEN SizeDelta(it.sizes, size_name) ELSE 0
             IN  (it.base_price + size_delta + SumDeltas(modifiers)) * Max(1, qty)

\* tax rates are per mille
PerMille == 1000

\* (mutant) the discount is taken off without the floor at 0
calc_order_totals_unclamped(subtotal, tax_rate, discount, delivery_fee, tip) ==
    LET sub_after_disc == subtotal - discount
    IN  {[subtotal |-> subtotal, tax |-> tax, discount |-> discount,
          delivery_fee |-> delivery_fee, tip |-> tip,
          total |-> sub_after_disc + tax + delivery_fee + tip] :
            tax \in Roundings(Max(0, sub_after_disc) * tax_rate, PerMille)}

\* the dicts calc_order_totals can return for these amounts (one, but for a
\* tax that lies half-way between two minor units)
calc_order_totals(subtotal, tax_rate, discount, delivery_fee, tip) ==
    LET sub_after_disc == Max(0, subtotal - discount)
    IN  {[subtotal |-> subtotal, tax |-> tax, discount |-> discount,
          delivery_fee |-> delivery_fee, tip |-> tip,
          total |-> sub_after_disc + tax + delivery_fee + tip] :
            tax \in Roundings(sub_after_disc * tax_rate, PerMille)}

\* the place of a status in the order new, in_progress, ready, completed
StageOf(status) == CHOOSE i \in 1..Len(STATUS_CHOICES) : STATUS_CHOICES[i] = status

\* ------------------------------------------------------------------ store
OrderIds(os) == 1..Len(os)

\* (mutant) a status UPDATE that rewrites the row with paid at its default
SetStatusResetsPaid(os, oid, st) ==
    IF oid \in OrderIds(os) THEN [os EXCEPT ![oid].status = st, ![oid].paid = FALSE] ELSE os

\* (mutant) a status UPDATE that also re-prices the order from the catalog
\* as it is now
RECURSIVE LiveSubtotal(_, _)
LiveSubtotal(rows, oid) ==
    IF rows = <<>> THEN 0
    ELSE (IF Head(rows).order_id = oid
          THEN calc_line_total(menu, Head(rows).item_id, Head(rows).qty,
                               Head(rows).size, Head(rows).modifiers)
          ELSE 0) + LiveSubtotal(Tail(rows), oid)

SetStatusReprices(os, oid, st) ==
    IF oid \in OrderIds(os)
    THEN [os EXCEPT ![oid].status = st,
                    ![oid].subtotal = LiveSubtotal(order_items, oid),
                    ![oid].total = @ - os[oid].subtotal + LiveSubtotal(order_items, oid)]
    ELSE os

\* UPDATE orders SET status=? WHERE id=?   (no row: nothing changes)
SetStatus(os, oid, st) ==
    IF oid \in OrderIds(os) THEN [os EXCEPT ![oid].status = st] ELSE os

\* (mutant) archiving an order also closes it
SetArchivedCloses(os, oid, a) ==
    IF oid \in OrderIds(os)
    THEN [os EXCEPT ![oid].archived = a,
                    ![oid].status = IF a THEN "completed" ELSE @]
    ELSE os

\* UPDATE orders SET archived=? WHERE id=?
SetArchived(os, oid, a) ==
    IF oid \in OrderIds(os) THEN [os EXCEPT ![oid].archived = a] ELSE os

\* UPDATE orders SET paid = CASE paid WHEN 1 THEN 0 ELSE 1 END WHERE id=?
TogglePaidRow(os, oid) ==
    IF oid \in OrderIds(os) THEN [os EXCEPT ![oid].paid = ~@] ELSE os

\* (mutant) the receiver flips the flag as the manager's Toggle Paid does
MarkPaidCardToggle(os, oid) ==
    IF oid \in OrderIds(os)
    THEN [os EXCEPT ![oid].paid = ~@, ![oid].payment_method = "Card"]
    ELSE os

\* UPDATE orders SET paid=1, payment_method='Card' WHERE id=?
MarkPaidCard(os, oid) ==
    IF oid \in OrderIds(os)
    THEN [os EXCEPT ![oid].paid = TRUE, ![oid].payment_method = "Card"]
    ELSE os

\* SELECT paid FROM orders WHERE id=?  ->  bool(row and row[0])
is_order_paid(os, oid) == oid \in OrderIds(os) /\ os[oid].paid

\* the kitchen's SELECT: ids of the unarchived orders not yet completed
ActiveOrders(os) ==
    {oid \in OrderIds(os) :
        ~os[oid].archived /\ os[oid].status \in {"new", "in_progress", "ready"}}

\* SELECT id FROM customers WHERE phone=?  (0 when there is no such row)
CustomerByPhone(cs, phone) ==
    IF \E i \in 1..Len(cs) : cs[i].phone = phone
    THEN CHOOSE i \in 1..Len(cs) : cs[i].phone = phone
    ELSE 0

\* ---------------------------------------------------------- last request
NoReq == [secret_set |-> FALSE, sig |-> "-", type |-> "-", order_id |-> "-"]

\* op: the handler; code: its answer (for the kitchen and the manager's quick
\* actions, the button). For the order form, the reconciliation and the
\* checkout handlers also: oid, the order addressed (0: none); changed, whether
\* a stored row differs afterwards; was_paid, the addressed order's paid flag
\* before; charged, the order a checkout session was requested for at the
\* gateway (0: no call); req, the request
Answer(op, oid, code, changed, was_paid, charged, req) ==
    [op |-> op, oid |-> oid, code |-> code, changed |-> changed,
     was_paid |-> was_paid, charged |-> charged, req |-> req]

NoAnswer == Answer("-", 0, "-", FALSE, FALSE, 0, NoReq)

\* ---------------------------------------------------------------- webhook
PaidEventTypes == {"checkout.session.completed", "payment_intent.succeeded"}
EventTypes == PaidEventTypes \cup {"invoice.paid"}

\* metadata.order_id of an event: NoMeta when the event has no metadata or no
\* order_id key, else the string found there: the id of an order, the id one
\* past the last order the store can hold, an empty string, a non-number
NoMeta == "NoMeta"
Numerals == <<"1", "2", "3", "4", "5", "6", "7", "8", "9">>
IntLiterals == {Numerals[i] : i \in 1..(MaxOrders + 1)}
MetaOrderIds == {NoMeta, "", "abc"} \cup IntLiterals

\* int(order_id): defined on the decimal literals only (ValueError otherwise)
IntOf(str) == CHOOSE i \in 1..Len(Numerals) : Numerals[i] = str

\* the requests the receiver can get: sig says what construct_event does with
\* payload and signature header; secret_set whether WEBHOOK_SECRET is non-empty
\* in the receiver's environment. Every event that passes construct_event,
\* and a forged or unverifiable checkout-completed event for each order id
WebhookRequests ==
    [secret_set : {TRUE}, sig : {"valid"}, type : EventTypes, order_id : MetaOrderIds]
    \cup
    {r \in [secret_set : BOOLEAN, sig : {"valid", "bad_signature", "bad_payload"},
            type : {"checkout.session.completed"}, order_id : IntLiterals] :
        ~(r.secret_set /\ r.sig = "valid")}

\* the request passed construct_event
Authenticated(req) == req.secret_set /\ req.sig = "valid"

\* (mutant) the event is read although construct_event rejected it
AddressedUnverified(req) ==
    /\ req.type \in PaidEventTypes
    /\ req.order_id \notin {NoMeta, ""}

\* (mutant) the event type is not looked at
AddressedAnyType(req) ==
    /\ Authenticated(req)
    /\ req.order_id \notin {NoMeta, ""}

\* the guard of the UPDATE: a paid event type and a truthy order_id
Addressed(req) ==
    /\ Authenticated(req)
    /\ req.type \in PaidEventTypes
    /\ req.order_id \notin {NoMeta, ""}

\* the HTTP status stripe_webhook answers with
WebhookCode(req) ==
    IF ~req.secret_set THEN "500"
    ELSE IF req.sig # "valid" THEN "400"
    ELSE IF Addressed(req) /\ req.order_id \notin IntLiterals THEN "500"
    ELSE "200"

\* table orders after stripe_webhook has handled req
WebhookOrders(os, req) ==
    IF Addressed(req) /\ req.order_id \in IntLiterals
    THEN MarkPaidCard(os, IntOf(req.order_id))
    ELSE os

WebhookOid(req) ==
    IF Addressed(req) /\ req.order_id \in IntLiterals THEN IntOf(req.order_id) ELSE 0

\* what is on record of a request: nothing of a payload that did not pass
\* construct_event
Logged(req) ==
    IF Authenticated(req) THEN req ELSE [req EXCEPT !.type = "-", !.order_id = "-"]

stripe_webhook(req) ==
    /\ orders' = WebhookOrders(orders, req)
    /\ last' = Answer("webhook", WebhookOid(req), WebhookCode(req),
                      orders' # orders, is_order_paid(orders, WebhookOid(req)), 0,
                      Logged(req))
    /\ UNCHANGED <<menu, customers, order_items, cart, last_order_id, kds>>

\* ------------------------------------------------------------- return URL
\* the query parameters of a page load and what the gateway would report for
\* the session they name
ReturnRequests ==
    [checkout : {"success", "canceled"}, order_id : {None} \cup IntLiterals,
     session_id : {None, "cs_1"}, session_status : {"paid", "unpaid"}]

\* (mutant) the success redirect is taken at its word: the order it names is
\* marked paid whatever the gateway says of the session
init_banner_trusts_redirect(q) ==
    /\ orders' = IF q.checkout = "success" /\ q.order_id # None
                 THEN MarkPaidCard(orders, IntOf(q.order_id))
                 ELSE orders
    /\ last' = Answer("return_url",
                      IF q.order_id = None THEN 0 ELSE IntOf(q.order_id),
                      IF q.order_id = None THEN "-" ELSE q.checkout,
                      orders' # orders,
                      q.order_id # None /\ is_order_paid(orders, IntOf(q.order_id)),
                      0,
                      q)
    /\ UNCHANGED <<menu, customers, order_items, cart, last_order_id, kds>>

init_banner(q) ==
    /\ last' = Answer("return_url",
                      IF q.order_id = None THEN 0 ELSE IntOf(q.order_id),
                      IF q.order_id = None THEN "-" ELSE q.checkout,
                      FALSE,
                      q.order_id # None /\ is_order_paid(orders, IntOf(q.order_id)),
                      0,
                      q)
    /\ UNCHANGED <<menu, customers, orders, order_items, cart, last_order_id, kds>>

\* ------------------------------------------------------------------- cart
\* what the Add Item widgets can hold: a category and an item of it, both
\* picked by name, a quantity, one of the item's sizes (None when it has
\* none) and toppings of the item
RECURSIVE Named(_, _)
Named(seq, name) ==
    IF seq = <<>> THEN <<>>
    ELSE IF Head(seq).name = name THEN <<Head(seq)>>
    ELSE Named(Tail(seq), name)

RECURSIVE ChosenMods(_, _)
ChosenMods(toppings, selected) ==
    IF selected = <<>> THEN <<>>
    ELSE Named(toppings, Head(selected)) \o ChosenMods(toppings, Tail(selected))

\* the item the Category and Item select boxes stand on: the first of that
\* name in the first category of that name (NoItem when the catalog has none)
SelectedItem(m, w) ==
    LET cats == Named(Categories(m), w.category)
        items == IF cats = <<>> THEN <<>> ELSE Named(cats[1].items, w.item_name)
    IN  IF items = <<>> THEN NoItem ELSE items[1]

WidgetsValid(m, w) ==
    LET it == SelectedItem(m, w)
    IN  /\ it.id # None
        /\ w.qty \in 1..99
        /\ IF it.sizes = <<>> THEN w.size = None ELSE Named(it.sizes, w.size) # <<>>
        /\ \A i \in 1..Len(w.mods) : Named(it.available_toppings, w.mods[i]) # <<>>

add_item_ui(w) ==
    /\ WidgetsValid(menu, w)
    /\ LET it == SelectedItem(menu, w)
           chosen_mods == ChosenMods(it.available_toppings, w.mods)
       IN  cart' = Append(cart,
               [item_id |-> it.id, item_name |-> it.name, qty |-> w.qty,
                size |-> w.size,
                size_delta |-> IF w.size # None THEN SizeDelta(it.sizes, w.size) ELSE 0,
                modifiers |-> chosen_mods,
                base_price |-> it.base_price,
                line_total |-> calc_line_total(menu, it.id, w.qty, w.size, chosen_mods)])
    /\ last' = Answer("add_item", 0, "added", FALSE, FALSE, 0, NoReq)
    /\ UNCHANGED <<menu, customers, orders, order_items, last_order_id, kds>>

\* the cart's buttons of line i: -1 and +1 set the quantity and compute the
\* line total anew from the catalog as it is now, Remove drops the line
CartButtons == {"-1", "+1", "Remove"}

RemoveAt(seq, i) == SubSeq(seq, 1, i - 1) \o SubSeq(seq, i + 1, Len(seq))

Requantified(m, line, qty) ==
    [line EXCEPT !.qty = qty,
                 !.line_total = calc_line_total(m, line.item_id, qty, line.size,
                                                line.modifiers)]

cart_summary_ui(btn, i) ==
    /\ i \in 1..Len(cart)
    /\ btn = "+1" => cart[i].qty < MaxQty
    /\ cart' = CASE btn = "-1" -> [cart EXCEPT ![i] = Requantified(menu, @, Max(1, @.qty - 1))]
                 [] btn = "+1" -> [cart EXCEPT ![i] = Requantified(menu, @, @.qty + 1)]
                 [] btn = "Remove" -> RemoveAt(cart, i)
    /\ last' = Answer("cart", 0, btn, FALSE, FALSE, 0, NoReq)
    /\ UNCHANGED <<menu, customers, orders, order_items, last_order_id, kds>>

\* ------------------------------------------------------ checkout creation
\* create_checkout_for_order: what it ends with. key_set: stripe.api_key is
\* non-empty; gw_ok: the gateway accepts the Session.create call
\* (mutant) the amount is not looked at before the gateway is called
CheckoutOutcomeAnyAmount(os, oid, key_set, gw_ok) ==
    IF ~key_set THEN "not_configured"
    ELSE IF oid \notin OrderIds(os) THEN "not_found"
    ELSE IF gw_ok THEN "created" ELSE "gateway_error"

CheckoutOutcome(os, oid, key_set, gw_ok) ==
    IF ~key_set THEN "not_configured"
    ELSE IF oid \notin OrderIds(os) THEN "not_found"
    ELSE IF os[oid].total <= 0 THEN "not_positive"
    ELSE IF gw_ok THEN "created" ELSE "gateway_error"

\* (mutant) the gateway is called before the order row is looked up
ChargedUnlooked(outcome, oid) ==
    IF outcome \in {"created", "gateway_error", "not_found"} THEN oid ELSE 0

\* the order Session.create was called for (0: the gateway was not called)
Charged(outcome, oid) == IF outcome \in {"created", "gateway_error"} THEN oid ELSE 0

\* metadata={"order_id": str(order_id)} of the session asked for
SessionMetadata(order_id) == [order_id |-> Numerals[order_id]]

\* (mutant) a created session stamps the order as a card payment
CheckoutOrdersStampsCard(os, oid, outcome) ==
    IF outcome = "created" /\ oid \in OrderIds(os)
    THEN [os EXCEPT ![oid].payment_method = "Card"]
    ELSE os

\* table orders once create_checkout_for_order has returned: its only SQL
\* is the SELECT of customer_name and total
CheckoutOrders(os, oid, outcome) == os

\* ------------------------------------------------------------ order flow
\* where a write of the placement can raise: the customer lookup/insert and
\* its commit, the order INSERT, an order_items INSERT, the aggregate UPDATE,
\* the final commit
FailPoints == {"none", "customer", "order", "items", "aggregate", "commit"}

\* create_or_get_customer runs SQL only for a non-empty name and phone
LooksUpCustomer(form) == form.customer_name # "" /\ form.customer_phone # ""

\* the customer id place_order_ui works with (0 for None)
CustIdFor(cs, form) ==
    IF ~LooksUpCustomer(form) THEN 0
    ELSE IF CustomerByPhone(cs, form.customer_phone) # 0
         THEN CustomerByPhone(cs, form.customer_phone)
         ELSE Len(cs) + 1

\* table customers once create_or_get_customer has returned (it commits its
\* INSERT itself)
create_or_get_customer(cs, form) ==
    IF LooksUpCustomer(form) /\ CustomerByPhone(cs, form.customer_phone) = 0
    THEN Append(cs, [name |-> form.customer_name, phone |-> form.customer_phone,
                     total_spent |-> 0, orders_count |-> 0])
    ELSE cs

FormTotals(form, subtotal) ==
    calc_order_totals(subtotal, form.tax_rate, form.discount,
                      IF form.service_type = "Delivery" THEN form.delivery_fee ELSE 0,
                      form.tip)

\* (mutant) the row is inserted with the column default for paid
OrderRowPaidDefault(form, totals) ==
    [customer_name |-> IF form.customer_name # "" THEN form.customer_name ELSE None,
     customer_phone |-> IF form.customer_phone # "" THEN form.customer_phone ELSE None,
     service_type |-> form.service_type,
     status |-> "new", paid |-> FALSE, payment_method |-> form.payment_method,
     subtotal |-> totals.subtotal, tax |-> totals.tax, discount |-> totals.discount,
     delivery_fee |-> totals.delivery_fee, tip |-> totals.tip, total |-> totals.total,
     archived |-> FALSE]

OrderRow(form, totals) ==
    [customer_name |-> IF form.customer_name # "" THEN form.customer_name ELSE None,
     customer_phone |-> IF form.customer_phone # "" THEN form.customer_phone ELSE None,
     service_type |-> form.service_type,
     status |-> "new", paid |-> form.paid, payment_method |-> form.payment_method,
     subtotal |-> totals.subtotal, tax |-> totals.tax, discount |-> totals.discount,
     delivery_fee |-> totals.delivery_fee, tip |-> totals.tip, total |-> totals.total,
     archived |-> FALSE]

ItemRows(order_id, lines) ==
    [i \in 1..Len(lines) |->
        [order_id |-> order_id, item_id |-> lines[i].item_id,
         item_name |-> lines[i].item_name, base_price |-> lines[i].base_price,
         size |-> lines[i].size, size_delta |-> lines[i].size_delta,
         modifiers |-> lines[i].modifiers, qty |-> lines[i].qty,
         line_total |-> lines[i].line_total, voided |-> FALSE]]

\* UPDATE customers SET orders_count = orders_count + 1,
\*                      total_spent = total_spent + ? WHERE id = ?
AddToAggregate(cs, cust_id, form, total) ==
    IF cust_id # 0 /\ form.customer_phone # ""
    THEN [cs EXCEPT ![cust_id].orders_count = @ + 1, ![cust_id].total_spent = @ + total]
    ELSE cs

\* the checkout attempt of "Place & Pay with Stripe" after the commit
PlacePayOutcome(os, order_id, total, key_set, gw_ok) ==
    IF ~key_set THEN "not_configured"
    ELSE IF total <= 0 THEN "not_positive"
    ELSE CheckoutOutcome(os, order_id, key_set, gw_ok)

\* (mutant) the form is processed whatever the cart holds
CartRejectedNever(c) == FALSE

\* if not st.session_state.cart: "Cart is empty." and return
CartRejected(c) == c = <<>>

place_order_ui(form, fail, key_set, gw_ok) ==
    IF CartRejected(cart)
    THEN /\ fail = "none" /\ key_set /\ gw_ok
         /\ last' = Answer("place_order", 0, "cart_empty", FALSE, FALSE, 0, NoReq)
         /\ UNCHANGED <<menu, customers, orders, order_items, cart, last_order_id, kds>>
    ELSE \E totals \in FormTotals(form, SumLineTotals(cart)) :
         LET cust_id == CustIdFor(customers, form)
             order_id == Len(orders) + 1
         IN  /\ Len(orders) < MaxOrders
             /\ fail = "customer" => LooksUpCustomer(form)
             /\ fail = "aggregate" => cust_id # 0
             /\ IF fail = "none"
                THEN /\ customers' = AddToAggregate(create_or_get_customer(customers, form),
                                                    cust_id, form, totals.total)
                     /\ orders' =
                            LET placed == Append(orders, OrderRow(form, totals))
                            IN  IF form.button = "place_pay"
                                THEN CheckoutOrders(placed, order_id,
                                         PlacePayOutcome(placed, order_id, totals.total,
                                                         key_set, gw_ok))
                                ELSE placed
                     /\ order_items' = order_items \o ItemRows(order_id, cart)
                     /\ cart' = <<>>
                     /\ last_order_id' = order_id
                     /\ last' = Answer("place_order", order_id, "placed", TRUE, FALSE,
                            IF form.button = "place_pay"
                            THEN Charged(PlacePayOutcome(orders', order_id, totals.total,
                                                         key_set, gw_ok), order_id)
                            ELSE 0,
                            form)
                ELSE /\ key_set /\ gw_ok
                     /\ customers' = IF fail = "customer" THEN customers
                                     ELSE create_or_get_customer(customers, form)
                     /\ last' = Answer("place_order", 0, "failed",
                                       customers' # customers, FALSE, 0, form)
                     /\ UNCHANGED <<orders, order_items, cart, last_order_id>>
             /\ UNCHANGED <<menu, kds>>

\* "Pay by Card (Stripe)" of the recent-order banner
pay_last(gw_ok) ==
    /\ last_order_id # 0
    /\ ~is_order_paid(orders, last_order_id)
    /\ orders' = CheckoutOrders(orders, last_order_id,
                                CheckoutOutcome(orders, last_order_id, TRUE, gw_ok))
    /\ last' = Answer("pay_last", last_order_id,
                      CheckoutOutcome(orders, last_order_id, TRUE, gw_ok), FALSE, FALSE,
                      Charged(CheckoutOutcome(orders, last_order_id, TRUE, gw_ok),
                              last_order_id),
                      NoReq)
    /\ UNCHANGED <<menu, customers, order_items, cart, last_order_id, kds>>

\* "Dismiss" of the recent-order banner
dismiss_last ==
    /\ last_order_id # 0
    /\ ~is_order_paid(orders, last_order_id)
    /\ last_order_id' = 0
    /\ last' = Answer("dismiss_last", 0, "-", FALSE, FALSE, 0, NoReq)
    /\ UNCHANGED <<menu, customers, orders, order_items, cart, kds>>

\* ---------------------------------------------------------------- kitchen
Buttons == {"Start", "Ready", "Complete"}

\* the status a kitchen button writes
ButtonStatus(btn) ==
    CASE btn = "Start" -> "in_progress" [] btn = "Ready" -> "ready"
      [] btn = "Complete" -> "completed"

KdsIdle == [pc |-> "idle", btn |-> "-", oid |-> 0]

\* a kitchen run whose SELECT and UPDATE no other writer comes between: the
\* button of an order exists only if the run's SELECT lists the order
kitchen_ui(btn, oid) ==
    /\ kds = KdsIdle
    /\ oid \in ActiveOrders(orders)
    /\ orders' = SetStatus(orders, oid, ButtonStatus(btn))
    /\ last' = Answer("kitchen", 0, btn, FALSE, FALSE, 0, NoReq)
    /\ UNCHANGED <<menu, customers, order_items, cart, last_order_id, kds>>

\* the same run in two steps: its SELECT has listed the order ...
kitchen_select(btn, oid) ==
    /\ kds = KdsIdle
    /\ oid \in ActiveOrders(orders)
    /\ kds' = [pc |-> "selected", btn |-> btn, oid |-> oid]
    /\ UNCHANGED <<menu, customers, orders, order_items, cart, last_order_id, last>>

\* ... and its UPDATE runs
kitchen_update ==
    /\ kds.pc = "selected"
    /\ orders' = SetStatus(orders, kds.oid, ButtonStatus(kds.btn))
    /\ kds' = KdsIdle
    /\ last' = Answer("kitchen", 0, kds.btn, FALSE, FALSE, 0, NoReq)
    /\ UNCHANGED <<menu, customers, order_items, cart, last_order_id>>

\* ---------------------------------------------------------------- manager
\* the Order ID number input: any id from 1, also one no order has
ManagerOids == 1..(MaxOrders + 1)

QuickActions == {"Toggle Paid", "Archive", "Unarchive", "Mark Completed"}

QuickActionOrders(os, act, oid) ==
    CASE act = "Toggle Paid" -> TogglePaidRow(os, oid)
      [] act = "Archive" -> SetArchived(os, oid, TRUE)
      [] act = "Unarchive" -> SetArchived(os, oid, FALSE)
      [] act = "Mark Completed" -> SetStatus(os, oid, "completed")

manager_quick_action(act, oid) ==
    /\ orders' = QuickActionOrders(orders, act, oid)
    /\ last' = Answer("manager", 0, act, FALSE, FALSE, 0, NoReq)
    /\ UNCHANGED <<menu, customers, order_items, cart, last_order_id, kds>>

\* "Create Stripe Checkout for Order ID above"
manager_checkout(oid, gw_ok) ==
    /\ orders' = CheckoutOrders(orders, oid, CheckoutOutcome(orders, oid, TRUE, gw_ok))
    /\ last' = Answer("manager_checkout", oid, CheckoutOutcome(orders, oid, TRUE, gw_ok),
                      FALSE, is_order_paid(orders, oid),
                      Charged(CheckoutOutcome(orders, oid, TRUE, gw_ok), oid), NoReq)
    /\ UNCHANGED <<menu, customers, order_items, cart, last_order_id, kds>>

\* ------------------------------------------------------------------ admin
\* what the menu.json text area can hold when "Save Menu JSON" is clicked: a
\* text is given by whether it is JSON at all and, if so, the document it
\* denotes

\* the Soda of the seeded catalog at a new price
RepricedSoda == 300
SodaRepriced == [DefaultMenu EXCEPT !.categories[3].items[1].base_price = RepricedSoda]

\* the seeded catalog with the Soda taken out
SodaRemoved == [DefaultMenu EXCEPT !.categories[3].items = <<>>]

\* the seeded catalog with a second drink entered under the Soda's id
SodaTwice ==
    [DefaultMenu EXCEPT !.categories[3].items =
        Append(@, [@[1] EXCEPT !.name = "Soda XL", !.base_price = RepricedSoda])]

\* a JSON object that has no "categories"
NoCategories == [items |-> <<>>]

NotJson == [valid_json |-> FALSE, doc |-> None]
JsonText(doc) == [valid_json |-> TRUE, doc |-> doc]

MenuTexts ==
    {NotJson} \cup
    {JsonText(d) : d \in {DefaultMenu, SodaRepriced, SodaRemoved, SodaTwice, NoCategories}}

\* json.loads(new_menu_text), where it returns
json_loads(text) == text.doc

\* "Save Menu JSON" with the admin tab unlocked: the parsed document is
\* written to menu.json as it is; a text json.loads rejects is reported and
\* nothing is written
admin_ui(text) ==
    /\ menu' = IF text.valid_json THEN json_loads(text) ELSE menu
    /\ last' = Answer("save_menu", 0, IF text.valid_json THEN "saved" ELSE "invalid_json",
                      menu' # menu, FALSE, 0, text)
    /\ UNCHANGED <<customers, orders, order_items, cart, last_order_id, kds>>

\* ---------------------------------------------------------- specification
Init ==
    /\ menu = DefaultMenu
    /\ customers = <<>>
    /\ orders = <<>>
    /\ order_items = <<>>
    /\ cart = <<>>
    /\ last_order_id = 0
    /\ kds = KdsIdle
    /\ last = NoAnswer
    /\ audit = <<>>

\* one step of each handler, its inputs drawn from the given sets
AddItemUpTo(widgets, lines) == \E w \in widgets : Len(cart) < lines /\ add_item_ui(w)
AddItemFrom(widgets) == AddItemUpTo(widgets, MaxCart)
CartButtonFrom(btns) == \E btn \in btns, i \in 1..Len(cart) : cart_summary_ui(btn, i)
PlaceOrderWith(forms, fails) ==
    \E form \in forms, fail \in fails, key_set \in BOOLEAN, gw_ok \in BOOLEAN :
        place_order_ui(form, fail, key_set, gw_ok)
QuickActionOf(acts) == \E act \in acts, oid \in ManagerOids : manager_quick_action(act, oid)
WebhookFrom(reqs) == \E req \in reqs : stripe_webhook(req)
ReturnUrlFrom(qs) == \E q \in qs : init_banner(q)
SaveMenuFrom(texts) == \E text \in texts : admin_ui(text)

\* the order form: who orders, "Mark as paid now?", which button
FormOf(name, phone, paid, button) ==
    [customer_name |-> name, customer_phone |-> phone, service_type |-> "Takeout",
     delivery_fee |-> DEFAULT_DELIVERY_FEE, discount |-> 0, tip |-> 0,
     tax_rate |-> DEFAULT_TAX_RATE, payment_method |-> "Cash",
     paid |-> paid, button |-> button]

Soda == [category |-> "Drinks", item_name |-> "Soda", qty |-> 1, size |-> "Lg", mods |-> <<>>]

\* ---- Spec: every handler of both processes, one request at a time
WalkInForms == {FormOf("", "", p, b) : p \in BOOLEAN, b \in {"place", "place_pay"}}

SomeWebhookRequests ==
    {[secret_set |-> TRUE, sig |-> sg, type |-> "checkout.session.completed", order_id |-> id] :
        sg \in {"valid", "bad_signature"}, id \in {"1", "2"}}

SomeReturnRequests ==
    {[checkout |-> c, order_id |-> "1", session_id |-> "cs_1", session_status |-> "paid"] :
        c \in {"success", "canceled"}}

AddItem == AddItemFrom({Soda}) /\ UNCHANGED audit
PlaceOrder == PlaceOrderWith(WalkInForms, {"none"}) /\ UNCHANGED audit
PayLast == (\E gw_ok \in BOOLEAN : pay_last(gw_ok)) /\ UNCHANGED audit
DismissLast == dismiss_last /\ UNCHANGED audit
Kitchen == (\E btn \in Buttons, oid \in 1..MaxOrders : kitchen_ui(btn, oid)) /\ UNCHANGED audit
ManagerQuick == QuickActionOf(QuickActions) /\ UNCHANGED audit
ManagerCheckout ==
    (\E oid \in ManagerOids, gw_ok \in BOOLEAN : manager_checkout(oid, gw_ok)) /\ UNCHANGED audit
Webhook == WebhookFrom(SomeWebhookRequests) /\ UNCHANGED audit
ReturnUrl == ReturnUrlFrom(SomeReturnRequests) /\ UNCHANGED audit

Next ==
    \/ AddItem
    \/ PlaceOrder
    \/ PayLast
    \/ DismissLast
    \/ Kitchen
    \/ ManagerQuick
    \/ ManagerCheckout
    \/ Webhook
    \/ ReturnUrl

Spec == Init /\ [][Next]_vars

\* ---- SpecWebhook: the receiver gets every request, against orders of a
\* ---- customer placed paid or unpaid
PayForms == {FormOf("Ann", "555", p, "place") : p \in BOOLEAN}

WhAddItem == AddItemFrom({Soda}) /\ UNCHANGED audit
WhPlaceOrder == PlaceOrderWith(PayForms, {"none"}) /\ UNCHANGED audit
WhTogglePaid == QuickActionOf({"Toggle Paid"}) /\ UNCHANGED audit
WhWebhook == WebhookFrom(WebhookRequests) /\ UNCHANGED audit

NextWebhook ==
    \/ WhAddItem
    \/ WhPlaceOrder
    \/ WhTogglePaid
    \/ WhWebhook

SpecWebhook == Init /\ [][NextWebhook]_vars

\* ---- SpecPlace: order placement with a write failing at any point
AllForms ==
    {FormOf(n, ph, p, b) : n \in {"", "Ann"}, ph \in {"", "555"}, p \in BOOLEAN,
                           b \in {"place", "place_pay"}}

PlAddItem == AddItemFrom({Soda}) /\ UNCHANGED audit
PlPlaceOrder == PlaceOrderWith(AllForms, FailPoints) /\ UNCHANGED audit

NextPlace ==
    \/ PlAddItem
    \/ PlPlaceOrder

SpecPlace == Init /\ [][NextPlace]_vars

\* ---- SpecCheckout: checkout creation from the order form, the recent-order
\* ---- banner and the manager tab, for orders of any total, and page loads
\* ---- with every return-URL query
MaxDiscount == 99900

Discounted(form, discount) == [form EXCEPT !.discount = discount]

CheckoutForms ==
    {Discounted(FormOf("", "", p, b), d) :
        p \in BOOLEAN, b \in {"place", "place_pay"}, d \in {0, MaxDiscount}}

CoAddItem == AddItemFrom({Soda}) /\ UNCHANGED audit
CoPlaceOrder == PlaceOrderWith(CheckoutForms, {"none", "commit"}) /\ UNCHANGED audit
CoPayLast == (\E gw_ok \in BOOLEAN : pay_last(gw_ok)) /\ UNCHANGED audit
CoManagerCheckout ==
    (\E oid \in ManagerOids, gw_ok \in BOOLEAN : manager_checkout(oid, gw_ok)) /\ UNCHANGED audit
CoReturnUrl == ReturnUrlFrom(ReturnRequests) /\ UNCHANGED audit

NextCheckout ==
    \/ CoAddItem
    \/ CoPlaceOrder
    \/ CoPayLast
    \/ CoManagerCheckout
    \/ CoReturnUrl

SpecCheckout == Init /\ [][NextCheckout]_vars

\* ---- SpecRace: the receiver, return-URL page loads, kitchen runs (SELECT
\* ---- and UPDATE as separate steps) and archive actions, interleaved
AuditNew == [confirmed |-> FALSE, webhooked |-> FALSE, status |-> "new", archived |-> FALSE]

UnpaidForms == {FormOf("", "", FALSE, "place")}

PaidEvents ==
    {[secret_set |-> TRUE, sig |-> "valid", type |-> t, order_id |-> "1"] : t \in PaidEventTypes}

\* a return-URL request that confirms the payment of an order of the store
ConfirmingReturn(q, os) ==
    /\ q.checkout = "success"
    /\ q.order_id # None /\ q.session_id # None
    /\ q.session_status = "paid"
    /\ IntOf(q.order_id) \in OrderIds(os)

PaidReturns ==
    {[checkout |-> "success", order_id |-> "1", session_id |-> "cs_1", session_status |-> st] :
        st \in {"paid", "unpaid"}}

RaceAddItem == AddItemFrom({Soda}) /\ UNCHANGED audit

RacePlace ==
    /\ PlaceOrderWith(UnpaidForms, {"none"})
    /\ audit' = IF Len(orders') > Len(orders) THEN Append(audit, AuditNew) ELSE audit

RaceWebhook ==
    \E req \in PaidEvents :
        /\ stripe_webhook(req)
        /\ audit' = IF WebhookOid(req) \in OrderIds(orders)
                    THEN [audit EXCEPT ![WebhookOid(req)].confirmed = TRUE,
                                       ![WebhookOid(req)].webhooked = TRUE]
                    ELSE audit

RaceReturnUrl ==
    \E q \in PaidReturns :
        /\ init_banner(q)
        /\ audit' = IF ConfirmingReturn(q, orders)
                    THEN [audit EXCEPT ![IntOf(q.order_id)].confirmed = TRUE]
                    ELSE audit

RaceKitchenSelect ==
    /\ \E btn \in Buttons, oid \in 1..MaxOrders : kitchen_select(btn, oid)
    /\ UNCHANGED audit

RaceKitchenUpdate ==
    /\ kitchen_update
    /\ audit' = IF kds.oid \in OrderIds(orders)
                THEN [audit EXCEPT ![kds.oid].status = ButtonStatus(kds.btn)]
                ELSE audit

RaceArchive ==
    \E act \in {"Archive", "Unarchive"}, oid \in ManagerOids :
        /\ manager_quick_action(act, oid)
        /\ audit' = IF oid \in OrderIds(orders)
                    THEN [audit EXCEPT ![oid].archived = (act = "Archive")]
                    ELSE audit

NextRace ==
    \/ RaceAddItem
    \/ RacePlace
    \/ RaceWebhook
    \/ RaceReturnUrl
    \/ RaceKitchenSelect
    \/ RaceKitchenUpdate
    \/ RaceArchive

SpecRace == Init /\ [][NextRace]_vars

\* ---- SpecCatalog: price edits and item removals between cart building,
\* ---- order placement, status and payment changes
CatalogForms == {FormOf("", "", FALSE, "place")}

CatalogEdits == {NotJson, JsonText(SodaRepriced), JsonText(SodaRemoved)}

CompletedEvents ==
    {[secret_set |-> TRUE, sig |-> "valid", type |-> "checkout.session.completed",
      order_id |-> "1"]}

CtAddItem == AddItemFrom({Soda}) /\ UNCHANGED audit
CtPlaceOrder == PlaceOrderWith(CatalogForms, {"none"}) /\ UNCHANGED audit
CtSaveMenu == SaveMenuFrom(CatalogEdits) /\ UNCHANGED audit
CtManagerQuick == QuickActionOf({"Mark Completed", "Toggle Paid"}) /\ UNCHANGED audit
CtWebhook == WebhookFrom(CompletedEvents) /\ UNCHANGED audit

NextCatalog ==
    \/ CtAddItem
    \/ CtPlaceOrder
    \/ CtSaveMenu
    \/ CtManagerQuick
    \/ CtWebhook

SpecCatalog == Init /\ [][NextCatalog]_vars

\* ---- SpecAdmin: the menu editor saving any text, between cart building
\* ---- and order placement
AdAddItem == AddItemFrom({Soda}) /\ UNCHANGED audit
AdPlaceOrder == PlaceOrderWith(CatalogForms, {"none"}) /\ UNCHANGED audit
AdSaveMenu == SaveMenuFrom(MenuTexts) /\ UNCHANGED audit

NextAdmin ==
    \/ AdAddItem
    \/ AdPlaceOrder
    \/ AdSaveMenu

SpecAdmin == Init /\ [][NextAdmin]_vars

\* ---- SpecKitchen: a kitchen run (SELECT and UPDATE as separate steps)
\* ---- next to the manager's quick actions and the receiver
KitchenForms == {FormOf("", "", p, "place") : p \in BOOLEAN}

KtAddItem == AddItemFrom({Soda}) /\ UNCHANGED audit
KtPlaceOrder == PlaceOrderWith(KitchenForms, {"none"}) /\ UNCHANGED audit
KtSelect ==
    (\E btn \in Buttons, oid \in 1..MaxOrders : kitchen_select(btn, oid)) /\ UNCHANGED audit
KtUpdate == kitchen_update /\ UNCHANGED audit
KtManagerQuick == QuickActionOf(QuickActions) /\ UNCHANGED audit
KtWebhook == WebhookFrom(CompletedEvents) /\ UNCHANGED audit

NextKitchen ==
    \/ KtAddItem
    \/ KtPlaceOrder
    \/ KtSelect
    \/ KtUpdate
    \/ KtManagerQuick
    \/ KtWebhook

SpecKitchen == Init /\ [][NextKitchen]_vars

\* ---- SpecStatus: the kitchen's buttons and the manager's status and
\* ---- archive actions on orders placed paid or unpaid
StAddItem == AddItemFrom({Soda}) /\ UNCHANGED audit
StPlaceOrder == PlaceOrderWith(KitchenForms, {"none"}) /\ UNCHANGED audit
StKitchen == (\E btn \in Buttons, oid \in 1..MaxOrders : kitchen_ui(btn, oid)) /\ UNCHANGED audit
StManagerQuick == QuickActionOf({"Archive", "Unarchive", "Mark Completed"}) /\ UNCHANGED audit

NextStatus ==
    \/ StAddItem
    \/ StPlaceOrder
    \/ StKitchen
    \/ StManagerQuick

SpecStatus == Init /\ [][NextStatus]_vars

\* ---- SpecCart: carts of several lines built with Add to Cart, -1, +1 and
\* ---- Remove, and placed
MaxLines == MaxCart + 1

CaAddItem == AddItemUpTo({Soda}, MaxLines) /\ UNCHANGED audit
CaCartButton == CartButtonFrom(CartButtons) /\ UNCHANGED audit
CaPlaceOrder == PlaceOrderWith(CatalogForms, {"none"}) /\ UNCHANGED audit

NextCart ==
    \/ CaAddItem
    \/ CaCartButton
    \/ CaPlaceOrder

SpecCart == Init /\ [][NextCart]_vars

\* ---- SpecReprice: the cart's buttons with catalog edits in between
RpAddItem == AddItemFrom({Soda}) /\ UNCHANGED audit
RpCartButton == CartButtonFrom(CartButtons) /\ UNCHANGED audit
RpSaveMenu == SaveMenuFrom(CatalogEdits) /\ UNCHANGED audit
RpPlaceOrder == PlaceOrderWith(CatalogForms, {"none"}) /\ UNCHANGED audit

NextReprice ==
    \/ RpAddItem
    \/ RpCartButton
    \/ RpSaveMenu
    \/ RpPlaceOrder

SpecReprice == Init /\ [][NextReprice]_vars

\* ---- SpecPricing: the pricing functions applied to inputs drawn from
\* ---- bounded sets, over the seeded catalog and a catalog with negative
\* ---- price deltas
PromoSizes ==
    << [name |-> "Reg", price_delta |-> 0], [name |-> "Lg", price_delta |-> 75],
       [name |-> "Kids", price_delta |-> -300] >>

PromoToppings ==
    << [name |-> "Pepperoni", price_delta |-> 150], [name |-> "Coupon", price_delta |-> -100] >>

PromoMenu ==
    [categories |-> <<
        [name |-> "Pizzas", items |-> <<
            [id |-> "pz_margherita", name |-> "Margherita", base_price |-> 1200,
             sizes |-> PromoSizes, available_toppings |-> PromoToppings] >>],
        [name |-> "Drinks", items |-> <<
            [id |-> "dr_soda", name |-> "Soda", base_price |-> 250,
             sizes |-> PromoSizes, available_toppings |-> PromoToppings] >>] >>]

LineItemIds == {"pz_margherita", "dr_soda", "sd_garlic_knots", "no_such_item"}
LineQtys == (-1)..MaxQty
LineSizes == {None, "Lg", "Kids", "XXL"}
LineModifiers ==
    {<<>>, <<PromoToppings[1]>>, <<PromoToppings[2]>>, <<PromoToppings[1], PromoToppings[2]>>}

TotalsSubtotals == {0, 30, 325, 3500}
TotalsTaxRates == {0, 50, DEFAULT_TAX_RATE}
TotalsDiscounts == {0, 500, MaxDiscount}
TotalsDeliveryFees == {0, DEFAULT_DELIVERY_FEE}
TotalsTips == {0, 400}

InitPricing ==
    /\ menu \in {DefaultMenu, PromoMenu}
    /\ customers = <<>>
    /\ orders = <<>>
    /\ order_items = <<>>
    /\ cart = <<>>
    /\ last_order_id = 0
    /\ kds = KdsIdle
    /\ last = NoAnswer
    /\ audit = <<>>

PrLineTotal ==
    /\ \E item_id \in LineItemIds, qty \in LineQtys, size_name \in LineSizes,
          modifiers \in LineModifiers :
          last' = Answer("calc_line_total", 0, "-", FALSE, FALSE, 0,
                         [item_id |-> item_id, qty |-> qty, size_name |-> size_name,
                          modifiers |-> modifiers,
                          result |-> calc_line_total(menu, item_id, qty, size_name, modifiers)])
    /\ UNCHANGED <<menu, customers, orders, order_items, cart, last_order_id, kds, audit>>

PrOrderTotals ==
    /\ \E subtotal \in TotalsSubtotals, tax_rate \in TotalsTaxRates,
          discount \in TotalsDiscounts, delivery_fee \in TotalsDeliveryFees,
          tip \in TotalsTips :
          \E totals \in calc_order_totals(subtotal, tax_rate, discount, delivery_fee, tip) :
              last' = Answer("calc_order_totals", 0, "-", FALSE, FALSE, 0,
                             [subtotal |-> subtotal, tax_rate |-> tax_rate,
                              discount |-> discount, delivery_fee |-> delivery_fee,
                              tip |-> tip, result |-> totals])
    /\ UNCHANGED <<menu, customers, orders, order_items, cart, last_order_id, kds, audit>>

NextPricing ==
    \/ PrLineTotal
    \/ PrOrderTotals

SpecPricing == InitPricing /\ [][NextPricing]_vars

\* ================================================================ claims
ToggledPaid == last'.op = "manager" /\ last'.code = "Toggle Paid"

\* C1 (as claimed): once an order's paid flag is true, no later operation
\* sets it back to false.
C1_PaidNeverRegresses ==
    [][\A o \in OrderIds(orders) : orders[o].paid => orders'[o].paid]_vars

\* C1 (amended): once an order's paid flag is true, no operation other than
\* the manager's Toggle Paid quick action sets it back to false.
C1_PaidRegressesOnlyByToggle ==
    [][(\E o \in OrderIds(orders) : orders[o].paid /\ ~orders'[o].paid) => ToggledPaid]_vars

\* a paid, completed, archived order for which a further payment event was
\* handled, still paid
C1_Witness ==
    /\ last.op = "webhook" /\ last.was_paid
    /\ last.oid \in OrderIds(orders)
    /\ orders[last.oid].paid
    /\ orders[last.oid].status = "completed"
    /\ orders[last.oid].archived

\* the receiver has handled an authenticated paid-type event naming an order
\* of the store
Confirmation(ans, os) ==
    /\ ans.op = "webhook"
    /\ Addressed(ans.req)
    /\ ans.oid \in OrderIds(os)

\* C2: handling a verified checkout-completed / payment-succeeded event for
\* an existing order leaves the order paid, leaves customers and order items
\* as they were, and a further delivery of the same event changes nothing.
C2_WebhookIdempotent ==
    [][Confirmation(last', orders) =>
        /\ orders'[last'.oid].paid
        /\ customers' = customers
        /\ order_items' = order_items
        /\ WebhookOrders(orders', last'.req) = orders'
        /\ last'.code = "200"]_vars

\* a second delivery for an order of a customer with a recorded aggregate
C2_Witness ==
    /\ Confirmation(last, orders)
    /\ last.was_paid /\ ~last.changed
    /\ orders[last.oid].customer_phone = "555"
    /\ \E c \in 1..Len(customers) : customers[c].orders_count > 0

\* C3: after a return-URL request with the success indicator, an order_id
\* and a session_id whose session the gateway reports paid, the order is paid.
C3_ReturnUrlMarksPaid ==
    (/\ last.op = "return_url"
     /\ last.req.checkout = "success"
     /\ last.req.order_id # None /\ last.req.session_id # None
     /\ last.req.session_status = "paid"
     /\ last.oid \in OrderIds(orders))
    => orders[last.oid].paid

\* C4: a verified paid-type event for an order that is already paid leaves
\* the whole store unchanged and is acknowledged with 200.
C4_PaidOrderUntouched ==
    (Confirmation(last, orders) /\ last.was_paid)
    => (~last.changed /\ last.code = "200")

\* C5: a request whose signature does not verify or whose payload is
\* malformed is answered 400 and no stored row changes; the same holds,
\* with a 5xx answer, when the receiver has no secret to verify against.
C5_BadSignatureRejected ==
    [][(last'.op = "webhook" /\ ~Authenticated(last'.req)) =>
        /\ last'.req.secret_set => last'.code = "400"
        /\ last'.code \in {"400", "500"}
        /\ UNCHANGED store]_vars

\* a bad signature was answered 400 while an order is unpaid
C5_Witness ==
    /\ last.op = "webhook" /\ last.req.secret_set /\ last.req.sig = "bad_signature"
    /\ last.code = "400"
    /\ \E o \in OrderIds(orders) : ~orders[o].paid

\* C6: every authenticated request is answered 200, whatever its type and
\* metadata.
C6_AuthenticatedAlwaysAcked ==
    (last.op = "webhook" /\ Authenticated(last.req)) => last.code = "200"

\* C7: an authenticated event without an order_id in its metadata, or of
\* another type than the two paid types, is answered 200 and no stored row
\* changes.
C7_UnaddressedEventIgnored ==
    [][(/\ last'.op = "webhook" /\ Authenticated(last'.req)
        /\ \/ last'.req.order_id \in {NoMeta, ""}
           \/ last'.req.type \notin PaidEventTypes) =>
        (last'.code = "200" /\ UNCHANGED store)]_vars

\* a paid-type event without order_id was acknowledged while an order is unpaid
C7_Witness ==
    /\ last.op = "webhook" /\ Authenticated(last.req)
    /\ last.req.order_id = NoMeta /\ last.req.type \in PaidEventTypes
    /\ last.code = "200"
    /\ \E o \in OrderIds(orders) : ~orders[o].paid

\* C8: whatever the interleaving of webhook deliveries, return-URL checks,
\* kitchen runs and archive actions, no update is lost: an order whose payment
\* either trigger has confirmed is paid, and status and archived hold what the
\* last status and archive action wrote.
C8_NoUpdateLost ==
    \A o \in OrderIds(orders) :
        /\ audit[o].confirmed => orders[o].paid
        /\ orders[o].status = audit[o].status
        /\ orders[o].archived = audit[o].archived

\* the part of C8 that is about the writers: what the receiver, the kitchen
\* and the archive actions wrote is all there
NoWriteLost ==
    \A o \in OrderIds(orders) :
        /\ audit[o].webhooked => orders[o].paid
        /\ orders[o].status = audit[o].status
        /\ orders[o].archived = audit[o].archived

\* C9: a placement that failed left no row behind.
C9_FailedPlacementLeavesNothing ==
    (last.op = "place_order" /\ last.code = "failed") => ~last.changed

\* C10 (as claimed): the order just placed has status new and paid false.
C10_CreatedNewUnpaid ==
    (last.op = "place_order" /\ last.code = "placed")
    => (orders[last.oid].status = "new" /\ ~orders[last.oid].paid)

\* C10 (amended): the order just placed has status new, and its paid flag is
\* what "Mark as paid now?" was set to on the form: false unless ticked.
C10_CreatedNewPaidAsTicked ==
    (last.op = "place_order" /\ last.code = "placed")
    => /\ last.oid = Len(orders)
       /\ orders[last.oid].status = "new"
       /\ orders[last.oid].paid = last.req.paid

\* an order was just placed with the box ticked, another without
C10_Witness ==
    /\ last.op = "place_order" /\ last.code = "placed"
    /\ last.req.paid /\ last.oid = 2 /\ ~orders[1].paid

\* C11: no action moves the status of an order to an earlier stage of
\* new, in_progress, ready, completed.
C11_StatusForwardOnly ==
    [][\A o \in OrderIds(orders) :
        StageOf(orders'[o].status) >= StageOf(orders[o].status)]_vars

\* C12: every status change takes an order to the stage that immediately
\* follows the one it is in.
C12_StatusOneStageAtATime ==
    [][\A o \in OrderIds(orders) :
        orders'[o].status # orders[o].status
        => StageOf(orders'[o].status) = StageOf(orders[o].status) + 1]_vars

\* the persisted orders whose customer_phone is phone, and the sum of their
\* totals
OrdersOfPhone(os, phone) == {o \in OrderIds(os) : os[o].customer_phone = phone}

RECURSIVE SumOfTotals(_, _)
SumOfTotals(os, ids) ==
    IF ids = {} THEN 0
    ELSE LET o == CHOOSE x \in ids : TRUE
         IN  os[o].total + SumOfTotals(os, ids \ {o})

\* C13: for every customer, orders_count is the number of persisted orders
\* with the customer's phone and total_spent is the sum of their totals.
C13_AggregatesMatchOrders ==
    \A c \in 1..Len(customers) :
        /\ customers[c].orders_count = Cardinality(OrdersOfPhone(orders, customers[c].phone))
        /\ customers[c].total_spent = SumOfTotals(orders, OrdersOfPhone(orders, customers[c].phone))

\* the last request asked create_checkout_for_order for a session
CheckoutAsked(ans) == ans.op \in {"pay_last", "manager_checkout"}

\* the last request placed an order with "Place & Pay with Stripe"
PlacedAndPay(ans) ==
    ans.op = "place_order" /\ ans.code = "placed" /\ ans.req.button = "place_pay"

\* C15: checkout creation for an order whose total is 0 or fewer minor units
\* fails, and the gateway is not called for it.
C15_NoCheckoutForZeroTotal ==
    /\ (CheckoutAsked(last) /\ last.oid \in OrderIds(orders) /\ orders[last.oid].total <= 0)
       => (last.code = "not_positive" /\ last.charged = 0)
    /\ (PlacedAndPay(last) /\ orders[last.oid].total <= 0) => last.charged = 0

\* the manager asked for a checkout of a fully discounted order, which was
\* refused, while another order has a positive total
C15_Witness ==
    /\ last.op = "manager_checkout" /\ last.code = "not_positive"
    /\ orders[last.oid].total = 0 /\ orders[last.oid].discount > orders[last.oid].subtotal
    /\ \E o \in OrderIds(orders) : orders[o].total > 0

\* C16: checkout creation writes nothing locally whatever its outcome; after
\* a gateway error the order is there with its paid flag as before and a
\* further checkout creation for it reaches the gateway again. An order placed
\* with "Place & Pay" is stored as the form and the cart had it.
C16_CheckoutWritesNothing ==
    [][/\ CheckoutAsked(last') =>
            /\ UNCHANGED <<store, menu, cart, last_order_id>>
            /\ last'.code = "gateway_error" =>
                  /\ last'.oid \in OrderIds(orders')
                  /\ orders'[last'.oid].paid = last'.was_paid
                  /\ CheckoutOutcome(orders', last'.oid, TRUE, TRUE) = "created"
       /\ PlacedAndPay(last') =>
            /\ \E totals \in FormTotals(last'.req, SumLineTotals(cart)) :
                  orders' = Append(orders, OrderRow(last'.req, totals))
            /\ order_items' = order_items \o ItemRows(last'.oid, cart)
      ]_vars

\* the gateway refused the session asked for from the manager tab for the
\* second order, which is unpaid
C16_Witness ==
    /\ last.op = "manager_checkout" /\ last.code = "gateway_error"
    /\ last.charged = last.oid /\ last.oid = 2
    /\ ~orders[last.oid].paid

\* C17: every call to the gateway asks for the session of an order whose row
\* is committed, carries that order's id as metadata, and the receiver reads
\* the same order back from an event with this metadata; a placement that
\* failed calls nothing.
C17_GatewayCalledForCommittedOrder ==
    last.charged # 0 =>
        /\ last.charged \in OrderIds(orders)
        /\ last.charged = last.oid
        /\ last.code # "failed"
        /\ WebhookOid([secret_set |-> TRUE, sig |-> "valid",
                       type |-> "checkout.session.completed",
                       order_id |-> SessionMetadata(last.charged).order_id]) = last.charged

\* the second order was placed with "Place & Pay" and its session asked for
C17_Witness ==
    /\ PlacedAndPay(last)
    /\ last.charged = 2 /\ Len(orders) = 2

\* C18: a return-URL request with the cancel indicator and an order_id, or
\* with the success indicator for a session the gateway does not report
\* paid, changes no stored state.
C18_ReturnUrlWarnsOnly ==
    [][(/\ last'.op = "return_url"
        /\ \/ last'.req.checkout = "canceled" /\ last'.req.order_id # None
           \/ last'.req.checkout = "success" /\ last'.req.session_status # "paid")
       => UNCHANGED <<store, menu, cart, last_order_id>>]_vars

\* a success redirect for an unpaid session named an unpaid order of the store
C18_Witness ==
    /\ last.op = "return_url"
    /\ last.req.checkout = "success" /\ last.req.session_status = "unpaid"
    /\ last.req.session_id # None
    /\ last.oid \in OrderIds(orders) /\ ~orders[last.oid].paid

\* the amounts of an order row and the price fields of an order item row
OrderMoney(r) == <<r.subtotal, r.tax, r.discount, r.delivery_fee, r.tip, r.total>>
ItemMoney(r) == <<r.order_id, r.base_price, r.size_delta, r.modifiers, r.qty, r.line_total>>

\* C14: no step (catalog save, status or payment change, later placement)
\* changes the subtotal, tax, discount, delivery_fee, tip or total of a placed
\* order, nor the base_price, size_delta, modifiers, qty or line_total of any
\* of its items.
C14_TotalsFrozen ==
    [][/\ \A o \in OrderIds(orders) : OrderMoney(orders'[o]) = OrderMoney(orders[o])
       /\ \A i \in 1..Len(order_items) : ItemMoney(order_items'[i]) = ItemMoney(order_items[i])
      ]_vars

\* an order placed before a price edit and completed after it, next to an
\* order placed at the new price
C14_Witness ==
    /\ Len(orders) = 2
    /\ orders[1].status = "completed"
    /\ \E i, j \in 1..Len(order_items) :
          /\ order_items[i].order_id = 1 /\ order_items[j].order_id = 2
          /\ order_items[i].item_id = order_items[j].item_id
          /\ order_items[i].base_price # order_items[j].base_price
          /\ find_item(menu, order_items[i].item_id).id # None
          /\ find_item(menu, order_items[i].item_id).base_price # order_items[i].base_price

\* a document is a catalog: an object with categories, each with a name and
\* items, each item with an id, a name and a base price
WellFormedCatalog(doc) ==
    /\ "categories" \in DOMAIN doc
    /\ \A c \in 1..Len(doc.categories) :
          /\ {"name", "items"} \subseteq DOMAIN doc.categories[c]
          /\ \A i \in 1..Len(doc.categories[c].items) :
                {"id", "name", "base_price"} \subseteq DOMAIN doc.categories[c].items[i]

MalformedText(text) == ~text.valid_json \/ ~WellFormedCatalog(json_loads(text))

\* C19: a save of a text that does not parse, or that parses to something
\* that is not a catalog, is answered with an error and leaves the persisted
\* catalog as it was.
C19_MalformedSaveRejected ==
    [][(last'.op = "save_menu" /\ MalformedText(last'.req))
       => (last'.code = "invalid_json" /\ menu' = menu)]_vars

\* C20: no two items of the persisted catalog have the same id.
C20_ItemIdsUnique ==
    LET items == FlatItems(Categories(menu))
    IN  \A i, j \in 1..Len(items) : items[i].id = items[j].id => i = j

LineCall(ans) == ans.op = "calc_line_total"

\* what calc_line_total gives for the inputs of the last call at another qty
SameLineAt(qty) ==
    calc_line_total(menu, last.req.item_id, qty, last.req.size_name, last.req.modifiers)

\* C21 (as claimed): for qty >= 1 the line total is the line total at qty 1
\* times qty, and it does not decrease when qty grows.
C21_LinearNonDecreasing ==
    (LineCall(last) /\ last.req.qty >= 1)
    => /\ last.req.result = SameLineAt(1) * last.req.qty
       /\ SameLineAt(last.req.qty + 1) >= last.req.result

\* C21 (amended): for qty >= 1 the line total is the line total at qty 1
\* times qty; it does not decrease when qty grows provided the price of one
\* unit (base price + size delta + modifier deltas) is not negative.
C21_LinearNonDecreasingIfUnitNonNegative ==
    (LineCall(last) /\ last.req.qty >= 1)
    => /\ last.req.result = SameLineAt(1) * last.req.qty
       /\ SameLineAt(1) >= 0 => SameLineAt(last.req.qty + 1) >= last.req.result

\* several units of an item at a size with a negative delta and with a
\* modifier, the unit price still positive
C21_Witness ==
    /\ LineCall(last) /\ last.req.qty >= 2
    /\ last.req.size_name = "Kids" /\ last.req.modifiers # <<>>
    /\ find_item(menu, last.req.item_id).id # None
    /\ SizeDelta(find_item(menu, last.req.item_id).sizes, "Kids") < 0
    /\ last.req.result > 0

\* C22: the line total of an item of the catalog for a qty below 1 is the
\* one for qty 1, and for a size that is nil or that the item does not have
\* it is (base price + modifier deltas) * max(1, qty).
C22_LineTotalNeverRejects ==
    (LineCall(last) /\ find_item(menu, last.req.item_id).id # None)
    => LET it == find_item(menu, last.req.item_id)
       IN  /\ last.req.qty < 1 => last.req.result = SameLineAt(1)
           /\ (last.req.size_name = None \/ Named(it.sizes, last.req.size_name) = <<>>)
              => last.req.result =
                   (it.base_price + SumDeltas(last.req.modifiers)) * Max(1, last.req.qty)

\* qty 0 of an item that has sizes, asked for at a size it does not have
C22_Witness ==
    /\ LineCall(last) /\ last.req.qty = 0
    /\ find_item(menu, last.req.item_id).id # None
    /\ find_item(menu, last.req.item_id).sizes # <<>>
    /\ last.req.size_name = "XXL" /\ last.req.modifiers # <<>>
    /\ last.req.result > 0

TotalsCall(ans) == ans.op = "calc_order_totals"

\* C23: the tax returned is max(0, subtotal - discount) * tax_rate rounded
\* to a nearest minor unit, the total is max(0, subtotal - discount) + tax +
\* delivery_fee + tip; with discount > subtotal nothing of the subtotal is
\* left (tax 0, total = delivery_fee + tip), and so for subtotal 0; 35.00 at
\* 0.085 with discount 5.00, fee 3.00, tip 4.00 gives tax 2.55, total 39.55.
C23_OrderTotals ==
    TotalsCall(last)
    => LET r == last.req
           t == last.req.result
           discounted == Max(0, r.subtotal - r.discount)
       IN  /\ 2 * (PerMille * t.tax - discounted * r.tax_rate) <= PerMille
           /\ 2 * (discounted * r.tax_rate - PerMille * t.tax) <= PerMille
           /\ t.total = discounted + t.tax + r.delivery_fee + r.tip
           /\ discounted >= 0
           /\ r.discount > r.subtotal => (t.tax = 0 /\ t.total = r.delivery_fee + r.tip)
           /\ r.subtotal = 0 => t.total = r.delivery_fee + r.tip
           /\ (r.subtotal = 3500 /\ r.tax_rate = 85 /\ r.discount = 500
               /\ r.delivery_fee = 300 /\ r.tip = 400) => (t.tax = 255 /\ t.total = 3955)

\* a discount above the subtotal, with a delivery fee and a tip
C23_Witness ==
    /\ TotalsCall(last)
    /\ last.req.subtotal > 0 /\ last.req.discount > last.req.subtotal
    /\ last.req.tax_rate > 0
    /\ last.req.delivery_fee > 0 /\ last.req.tip > 0
    /\ last.req.result.total = last.req.delivery_fee + last.req.tip

\* the step was a status action / an archive flip
StatusAction(ans) ==
    ans.op = "kitchen" \/ (ans.op = "manager" /\ ans.code = "Mark Completed")
ArchiveAction(ans) == ans.op = "manager" /\ ans.code \in {"Archive", "Unarchive"}

\* C24: a kitchen or manager status action changes nothing but the status
\* of one order, an archive or unarchive action nothing but the archived
\* flag of one order; customers and order items stay as they were.
C24_SingleFieldTransitions ==
    [][(StatusAction(last') \/ ArchiveAction(last')) =>
        /\ UNCHANGED <<customers, order_items, menu, cart>>
        /\ Len(orders') = Len(orders)
        /\ Cardinality({o \in OrderIds(orders) : orders'[o] # orders[o]}) <= 1
        /\ \A o \in OrderIds(orders) :
              /\ StatusAction(last') =>
                    orders'[o] = [orders[o] EXCEPT !.status = orders'[o].status]
              /\ ArchiveAction(last') =>
                    orders'[o] = [orders[o] EXCEPT !.archived = orders'[o].archived]
      ]_vars

\* a paid order that is ready was archived, next to another order
C24_Witness ==
    /\ last.op = "manager" /\ last.code = "Archive"
    /\ Len(orders) = 2
    /\ \E o \in OrderIds(orders) :
          orders[o].archived /\ orders[o].paid /\ orders[o].status = "ready"

\* C28: an order whose status is completed keeps that status, whatever
\* kitchen runs, manager actions and webhook events follow and however they
\* interleave.
C28_CompletedIsAbsorbing ==
    [][\A o \in OrderIds(orders) :
        orders[o].status = "completed" => orders'[o].status = "completed"]_vars

\* C25: a submission of the order form with an empty cart is refused and
\* writes nothing, and every persisted order has at least one order item.
C25_EmptyCartRejected ==
    [][/\ (last'.op = "place_order" /\ cart = <<>>)
          => (last'.code = "cart_empty" /\ UNCHANGED <<store, last_order_id>>)
       /\ \A o \in OrderIds(orders') :
             \E i \in 1..Len(order_items') : order_items'[i].order_id = o
      ]_vars

\* the form was submitted with an empty cart after an order of a customer
C25_Witness ==
    /\ last.op = "place_order" /\ last.code = "cart_empty"
    /\ cart = <<>>
    /\ Len(orders) = 1
    /\ \E c \in 1..Len(customers) : customers[c].orders_count = 1

\* the sum of the line totals of the persisted items of order oid
RECURSIVE ItemsTotal(_, _)
ItemsTotal(rows, oid) ==
    IF rows = <<>> THEN 0
    ELSE (IF Head(rows).order_id = oid THEN Head(rows).line_total ELSE 0)
         + ItemsTotal(Tail(rows), oid)

\* C26: the subtotal stored on an order is the sum of the line totals of
\* the order's persisted items.
C26_SubtotalIsSumOfLines ==
    \A o \in OrderIds(orders) : orders[o].subtotal = ItemsTotal(order_items, o)

\* an order of two lines of different quantities, one of them raised with +1
C26_Witness ==
    /\ last.op = "place_order" /\ last.code = "placed"
    /\ \E i, j \in 1..Len(order_items) :
          /\ i # j
          /\ order_items[i].order_id = last.oid /\ order_items[j].order_id = last.oid
          /\ order_items[i].qty > order_items[j].qty
    /\ orders[last.oid].subtotal > 0

\* C27: the line total of every persisted order item is (its base price +
\* its size delta + the sum of its modifiers' deltas) times its quantity.
C27_OrderItemConsistent ==
    \A i \in 1..Len(order_items) :
        order_items[i].line_total =
            (order_items[i].base_price + order_items[i].size_delta
             + SumDeltas(order_items[i].modifiers)) * order_items[i].qty

\* C29: every call to the gateway for a checkout session is for an order
\* that is unpaid at the time of the call (checkout creation writes nothing,
\* so the order's flag after the call is its flag at the call).
C29_NoCheckoutForPaidOrder ==
    (last.charged # 0 /\ last.charged \in OrderIds(orders))
    => ~orders[last.charged].paid

====
